---- MODULE Spec2Model ----
(***************************************************************************)
(* Model of the crypto price tracker: the pair catalog                     *)
(* (src/models/currency.py), PriceService (src/services/price_service.py), *)
(* the cached fetch-and-store cycle of the dashboard                       *)
(* (src/ui/streamlit_app.py) and the routes of the API                     *)
(* (src/api/routes.py, src/models/price.py).                               *)
(*                                                                         *)
(* Text is modelled at token level: the pair string "btc/usd" is the       *)
(* token sequence <<"btc", "/", "usd">>.  Time is in seconds.  Prices are  *)
(* integers.  The database is PostgreSQL at READ COMMITTED (the ranking    *)
(* query is PostgreSQL-only): a statement sees committed rows only.        *)
(***************************************************************************)
EXTENDS Integers, Sequences, FiniteSets, TLC

\* ------------------------------------------------------------- bounds
\* number of clock advances in one behaviour
MaxTicks == 2
\* number of committed batches the table may hold
MaxBatches == 2
\* number of market states (price profiles) a call may find the external
\* source in
NumProfiles == 2

\* the clock advances by one of these amounts (seconds): half a TTL and
\* a day, so that ages of exactly 90 s and exactly 24 h occur
TickSteps == {45, 86400}

\* ---------------------------------------------------- program constants
\* st.cache_data(ttl=90)
TTL == 90
\* get_price_history(self, pair, hours=24)
DefaultHours == 24
\* INTERVAL '24 HOURS' of the ranking query
RankWindowHours == 24
\* lru_cache(maxsize=32)
LruMaxsize == 32
\* timedelta(hours=hours), in seconds
SecondsPerHour == 3600

\* ------------------------------------------------------------ catalog
BaseCurrency == {"btc", "eth", "sol", "etc", "dot", "ada", "bnt"}

QuoteCurrency == {"usd", "eur", "btc"}

\* CoinGeckoId: enum member name -> value
CoinGeckoId ==
  [ADA |-> "cardano", BNT |-> "bancor", BTC |-> "bitcoin", DOT |-> "polkadot",
   ETC |-> "ethereum-classic", ETH |-> "ethereum", SOL |-> "solana"]

\* the symbols the model feeds to the catalog ("xyz" is in no enumeration)
Symbols == BaseCurrency \cup QuoteCurrency \cup {"xyz"}

\* str.upper() on the symbols
Upper(s) ==
  CASE s = "btc" -> "BTC" [] s = "eth" -> "ETH" [] s = "sol" -> "SOL"
    [] s = "etc" -> "ETC" [] s = "dot" -> "DOT" [] s = "ada" -> "ADA"
    [] s = "bnt" -> "BNT" [] s = "usd" -> "USD" [] s = "eur" -> "EUR"
    [] OTHER -> "XYZ"

\* a lookup by the symbol as given, not upper-cased
get_coingecko_id_exact(currency) ==
  IF currency \in DOMAIN CoinGeckoId
  THEN [ok |-> TRUE, value |-> CoinGeckoId[currency]]
  ELSE [ok |-> FALSE, value |-> "ValueError"]

\* CurrencyPair.get_coingecko_id: CoinGeckoId[currency.upper()].value, a
\* KeyError becoming ValueError("Unsupported currency")
get_coingecko_id(currency) ==
  IF Upper(currency) \in DOMAIN CoinGeckoId
  THEN [ok |-> TRUE, value |-> CoinGeckoId[Upper(currency)]]
  ELSE [ok |-> FALSE, value |-> "ValueError"]

\* CurrencyPair.__str__: f"{base}/{quote}"
PairStr(base, quote) == <<base, "/", quote>>

\* pair.split("/") unpacked into base, quote
SplitPair(pair) == [base |-> pair[1], quote |-> pair[Len(pair)]]

\* PAIRS, in the order of the source
PAIRS ==
  << PairStr("btc", "usd"), PairStr("eth", "usd"), PairStr("sol", "usd"),
     PairStr("etc", "eur"), PairStr("dot", "usd"), PairStr("ada", "usd"),
     PairStr("eth", "btc"), PairStr("bnt", "btc") >>

PairSet == {PAIRS[i] : i \in 1..Len(PAIRS)}

\* ------------------------------------------------- ordered dictionaries
\* a Python dict is a sequence of items [key, val] in insertion order
DictKeys(d) == {d[i].key : i \in 1..Len(d)}

DictGet(d, k) == (CHOOSE i \in 1..Len(d) : d[i].key = k)

DictSet(d, k, v) ==
  IF k \in DictKeys(d)
  THEN [i \in 1..Len(d) |-> IF d[i].key = k THEN [key |-> k, val |-> v] ELSE d[i]]
  ELSE Append(d, [key |-> k, val |-> v])

EmptyDict == <<>>

\* -------------------------------------------------------- fetch_prices
\* a loop that makes a group of its own for every pair
RECURSIVE GroupsFromPerPair(_, _)
GroupsFromPerPair(i, groups) ==
  IF i > Len(PAIRS) THEN groups
  ELSE LET s == SplitPair(PAIRS[i])
       IN GroupsFromPerPair(i + 1, Append(groups, [key |-> s.quote, val |-> <<s.base>>]))

\* the loop over PAIRS that builds quote_groups (quote -> list of bases),
\* from pair number i on
RECURSIVE GroupsFrom(_, _)
GroupsFrom(i, groups) ==
  IF i > Len(PAIRS) THEN groups
  ELSE LET s == SplitPair(PAIRS[i])
           g0 == IF s.quote \in DictKeys(groups) THEN groups
                 ELSE DictSet(groups, s.quote, <<>>)
           j == DictGet(g0, s.quote)
       IN GroupsFrom(i + 1, DictSet(g0, s.quote, Append(g0[j].val, s.base)))

QuoteGroups == GroupsFrom(1, EmptyDict)

\* ids = [get_coingecko_id(base) for base in bases]
GroupIds(bases) == [i \in 1..Len(bases) |-> get_coingecko_id(bases[i])]

\* the request of one quote group: params ids (joined) and vs_currencies
GroupRequest(quote, bases) ==
  [ids |-> [i \in 1..Len(bases) |-> GroupIds(bases)[i].value], vs |-> quote]

\* response.raise_for_status(): an HTTPError for 4xx and 5xx
RaisesForStatus(status) == status >= 400 /\ status < 600

\* the inner loop over bases from number i on:
\* current_prices[pair] = data[get_coingecko_id(base)][quote]
RECURSIVE ExtractFrom(_, _, _, _, _)
ExtractFrom(i, bases, quote, data, prices) ==
  IF i > Len(bases) THEN [ok |-> TRUE, prices |-> prices]
  ELSE LET id == get_coingecko_id(bases[i])
       IN IF ~id.ok THEN [ok |-> FALSE, prices |-> prices]
          ELSE IF id.value \notin DOMAIN data THEN [ok |-> FALSE, prices |-> prices]
          ELSE IF quote \notin DOMAIN data[id.value] THEN [ok |-> FALSE, prices |-> prices]
          ELSE ExtractFrom(i + 1, bases, quote, data,
                 DictSet(prices, PairStr(bases[i], quote), data[id.value][quote]))

\* one pass of the loop over quote_groups on the response resp: ok with the
\* prices so far, or the exception with the prices assigned before it
ProcessGroup(quote, bases, resp, prices) ==
  IF \E i \in 1..Len(bases) : ~GroupIds(bases)[i].ok
    THEN [ok |-> FALSE, prices |-> prices]
  ELSE IF resp.kind = "exception" THEN [ok |-> FALSE, prices |-> prices]
  ELSE IF RaisesForStatus(resp.status) THEN [ok |-> FALSE, prices |-> prices]
  ELSE IF ~resp.json THEN [ok |-> FALSE, prices |-> prices]
  ELSE ExtractFrom(1, bases, quote, resp.data, prices)

\* ------------------------------------------------ the external source
\* the price of an asset under market profile k
Level(id) ==
  CASE id = "bitcoin" -> 1 [] id = "ethereum" -> 2 [] id = "solana" -> 2
    [] id = "polkadot" -> 3 [] id = "cardano" -> 1
    [] id = "ethereum-classic" -> 2 [] OTHER -> 3

Quote(k, id) == 10 + (k - 1) * Level(id)

IdSet(req) == {req.ids[i] : i \in 1..Len(req.ids)}

GoodResponse(req, k) ==
  [kind |-> "http", status |-> 200, json |-> TRUE,
   data |-> [id \in IdSet(req) |-> [q \in {req.vs} |-> Quote(k, id)]]]

NoData == [id \in {} |-> 0]

\* what the external source may answer to the request req when the market
\* is in state k: the prices, or one of the failures
Responses(req, k) ==
  {GoodResponse(req, k)}
  \cup {[kind |-> "exception", status |-> 0, json |-> FALSE, data |-> NoData]}
  \cup {[kind |-> "http", status |-> s, json |-> TRUE, data |-> NoData] : s \in {429, 500}}
  \cup {[kind |-> "http", status |-> 200, json |-> FALSE, data |-> NoData]}
  \cup {[kind |-> "http", status |-> 200, json |-> TRUE,
         data |-> [id \in IdSet(req) \ {req.ids[Len(req.ids)]} |->
                     [q \in {req.vs} |-> Quote(k, id)]]]}
  \cup {[kind |-> "http", status |-> 200, json |-> TRUE,
         data |-> [id \in IdSet(req) |->
                     IF id = req.ids[1] THEN NoData
                     ELSE [q \in {req.vs} |-> Quote(k, id)]]]}

\* -------------------------------------------------------------- state
\* the callers, each a server process of its own (the dashboard, a second
\* dashboard, or the API); the calls of one process come one after the other
Procs == {1, 2}

Drivers == {1}

VARIABLES
  now,       \* the wall clock, in seconds
  ticks,     \* clock advances so far
  table,     \* price_history: the committed rows, in insertion order
  pending,   \* per caller: the rows its open transaction has inserted
  pc,        \* per caller: where it is in fetch_and_store_prices
  loc,       \* per caller: the locals of the call it is in
  stCache,   \* per process: st.cache_data's entry for fetch_and_store_prices()
  histMemo,  \* lru_cache of get_price_history: items, least recent first
  rankMemo,  \* lru_cache of get_volatility_rank: items, least recent first
  ret        \* the call that has just returned, until its caller takes it

vars == <<now, ticks, table, pending, pc, loc, stCache, histMemo, rankMemo, ret>>

NoRet == [op |-> "none"]

IdleLoc ==
  [caller |-> "none", pair |-> <<>>, queries |-> 0, history |-> <<>>,
   market |-> 0, groups |-> <<>>, current_prices |-> EmptyDict, reqLog |-> <<>>, respLog |-> <<>>,
   fetched |-> "none", prices |-> EmptyDict, stored |-> "none", timestamp |-> 0,
   todo |-> <<>>, table0 |-> <<>>]

NoEntry == [present |-> FALSE, value |-> EmptyDict, at |-> 0]

Init ==
  /\ now = 0
  /\ ticks = 0
  /\ table = <<>>
  /\ pending = [p \in Procs |-> <<>>]
  /\ pc = [p \in Procs |-> "idle"]
  /\ loc = [p \in Procs |-> IdleLoc]
  /\ stCache = [p \in Procs |-> NoEntry]
  /\ histMemo = <<>>
  /\ rankMemo = <<>>
  /\ ret = NoRet

\* time passes
Tick ==
  /\ ret = NoRet
  /\ ticks < MaxTicks
  /\ \E d \in TickSteps : now' = now + d
  /\ ticks' = ticks + 1
  /\ UNCHANGED <<table, pending, pc, loc, stCache, histMemo, rankMemo, ret>>

\* the caller takes the returned value (or the exception)
Return ==
  /\ ret # NoRet
  /\ ret' = NoRet
  /\ pc' = [p \in Procs |-> IF pc[p] = "done" THEN "idle" ELSE pc[p]]
  /\ loc' = [p \in Procs |-> IF pc[p] = "done" THEN IdleLoc ELSE loc[p]]
  /\ UNCHANGED <<now, ticks, table, pending, stCache, histMemo, rankMemo>>

\* ---------------------------------------- the cached fetch-and-store
\* a cache that never serves an entry
CacheFreshNever(entry, t) == FALSE

\* a cache that still serves an entry whose age is the ttl
CacheFreshInclusive(entry, t) == entry.present /\ t <= entry.at + TTL

\* st.cache_data(ttl=90): an entry is served while its age is below the ttl
CacheFresh(entry, t) == entry.present /\ t < entry.at + TTL

\* an except clause that re-raises
WrapperOnErrorReraises == [kind |-> "raise", value |-> EmptyDict]

\* the except clause of fetch_and_store_prices: log, return {}
WrapperOnError == [kind |-> "return", value |-> EmptyDict]

\* a cache that does not keep an empty mapping
FinishSkipsEmpty(p, outcome, failed) ==
  /\ pc' = [pc EXCEPT ![p] = "done"]
  /\ ret' = [op |-> "fetch_and_store_prices", kind |-> outcome.kind,
             value |-> outcome.value, hit |-> FALSE, failed |-> failed]
  /\ stCache' = IF outcome.kind = "return" /\ outcome.value # EmptyDict
                THEN [stCache EXCEPT ![p] = [present |-> TRUE, value |-> outcome.value,
                                             at |-> now]]
                ELSE stCache

\* the function returns (or raises): st.cache_data stores a returned value
Finish(p, outcome, failed) ==
  /\ pc' = [pc EXCEPT ![p] = "done"]
  /\ ret' = [op |-> "fetch_and_store_prices", kind |-> outcome.kind,
             value |-> outcome.value, hit |-> FALSE, failed |-> failed]
  /\ stCache' = IF outcome.kind = "return"
                THEN [stCache EXCEPT ![p] = [present |-> TRUE, value |-> outcome.value,
                                             at |-> now]]
                ELSE stCache

\* the positions inside fetch_and_store_prices
InCall == {"fetch", "store", "insert"}

\* a fetch_and_store_prices that starts only when no other call is under way
CallSerialized(p) ==
  /\ ret = NoRet
  /\ pc[p] = "idle"
  /\ \A q \in Procs \ {p} : pc[q] \notin InCall
  /\ IF CacheFresh(stCache[p], now)
     THEN /\ ret' = [op |-> "fetch_and_store_prices", kind |-> "return",
                     value |-> stCache[p].value, hit |-> TRUE, failed |-> "none"]
          /\ pc' = [pc EXCEPT ![p] = "done"]
          /\ UNCHANGED loc
     ELSE /\ Len(table) < MaxBatches * Len(PAIRS)
          /\ pc' = [pc EXCEPT ![p] = "fetch"]
          /\ \E k \in 1..NumProfiles :
               loc' = [loc EXCEPT ![p] = [IdleLoc EXCEPT !.caller = "dashboard",
                                                          !.market = k,
                                                          !.groups = QuoteGroups,
                                                          !.table0 = table]]
          /\ UNCHANGED ret
  /\ UNCHANGED <<now, ticks, table, pending, stCache, histMemo, rankMemo>>

\* the callers that are inside fetch_and_store_prices
Storing == {q \in Procs : pc[q] \in InCall /\ loc[q].caller = "dashboard"}

\* fetch_and_store_prices() is called: a fresh entry is returned, anything
\* else runs the function, which finds the market in one of its states
Call(p) ==
  /\ ret = NoRet
  /\ pc[p] = "idle"
  /\ IF CacheFresh(stCache[p], now)
     THEN /\ ret' = [op |-> "fetch_and_store_prices", kind |-> "return",
                     value |-> stCache[p].value, hit |-> TRUE, failed |-> "none"]
          /\ pc' = [pc EXCEPT ![p] = "done"]
          /\ UNCHANGED loc
     ELSE /\ Len(table) + Len(PAIRS) * Cardinality(Storing) < MaxBatches * Len(PAIRS)
          /\ pc' = [pc EXCEPT ![p] = "fetch"]
          /\ \E k \in 1..NumProfiles :
               loc' = [loc EXCEPT ![p] = [IdleLoc EXCEPT !.caller = "dashboard",
                                                          !.market = k,
                                                          !.groups = QuoteGroups,
                                                          !.table0 = table]]
          /\ UNCHANGED ret
  /\ UNCHANGED <<now, ticks, table, pending, stCache, histMemo, rankMemo>>

\* --------------------------------------------- the answers of the API
\* Price(BaseModel): pair, price and timestamp are required fields; the
\* model object, or pydantic's ValidationError
PriceFields == {"pair", "price", "timestamp"}

Price(fields) ==
  IF PriceFields \subseteq DOMAIN fields
  THEN [ok |-> TRUE, value |-> fields]
  ELSE [ok |-> FALSE, value |-> "ValidationError"]

\* the status codes of the API: the model returned, HTTPException(404), and
\* the answer to an exception no handler caught
StatusOK == 200
StatusNotFound == 404
StatusServerError == 500

\* the route of caller p answers: status and body (<<>> when it is an error)
Respond(p, route, status, body) ==
  /\ pc' = [pc EXCEPT ![p] = "done"]
  /\ ret' = [op |-> route, kind |-> "response", status |-> status, value |-> body]

\* return Price(pair=pair, price=prices[pair]) of the current-price route
CurrentEnd(p, prices) ==
  LET pair == loc[p].pair
      made == IF pair \in DictKeys(prices)
              THEN Price([pair |-> pair, price |-> prices[DictGet(prices, pair)].val])
              ELSE [ok |-> FALSE, value |-> "KeyError"]
  IN IF made.ok THEN Respond(p, "current", StatusOK, made.value)
     ELSE Respond(p, "current", StatusServerError, <<>>)

\* an exception leaves a service operation: fetch_and_store_prices catches
\* it; a route does not, and the API answers with a server error
Raised(p, failed) ==
  IF loc[p].caller = "dashboard" THEN Finish(p, WrapperOnError, failed)
  ELSE Respond(p, loc[p].caller, StatusServerError, <<>>) /\ UNCHANGED stCache

\* a fetch_prices whose except clause returns what it has
FetchNextReturnsPartial(ok, rest) ==
  IF ~ok THEN "return" ELSE IF rest = <<>> THEN "return" ELSE "continue"

\* a fetch_prices that skips a failed quote group
FetchNextSkipsGroup(ok, rest) ==
  IF rest = <<>> THEN "return" ELSE "continue"

\* what fetch_prices does after one quote group: the except clause
\* re-raises, the loop goes on, or the mapping is returned
FetchNext(ok, rest) ==
  IF ~ok THEN "raise" ELSE IF rest = <<>> THEN "return" ELSE "continue"

\* fetch_prices, one quote group: the request, its response, the prices
FetchGroup(p, faults) ==
  /\ ret = NoRet
  /\ pc[p] = "fetch"
  /\ LET g == Head(loc[p].groups)
         rest == Tail(loc[p].groups)
         req == GroupRequest(g.key, g.val)
     IN \E resp \in (IF faults THEN Responses(req, loc[p].market)
                      ELSE {GoodResponse(req, loc[p].market)}) :
          LET r == ProcessGroup(g.key, g.val, resp, loc[p].current_prices)
              next == FetchNext(r.ok, rest)
              l1 == [loc[p] EXCEPT !.groups = rest,
                                   !.current_prices = r.prices,
                                   !.reqLog = Append(@, req),
                                   !.respLog = Append(@, resp)]
          IN CASE next = "raise" ->
                    /\ loc' = [loc EXCEPT ![p] = [l1 EXCEPT !.fetched = "raise"]]
                    /\ Raised(p, "fetch")
               [] next = "return" ->
                    /\ loc' = [loc EXCEPT ![p] = [l1 EXCEPT !.fetched = "return",
                                                            !.prices = r.prices]]
                    /\ IF loc[p].caller = "dashboard"
                       THEN pc' = [pc EXCEPT ![p] = "store"] /\ UNCHANGED <<stCache, ret>>
                       ELSE CurrentEnd(p, r.prices) /\ UNCHANGED stCache
               [] OTHER ->
                    /\ loc' = [loc EXCEPT ![p] = l1]
                    /\ UNCHANGED <<pc, stCache, ret>>
  /\ UNCHANGED <<now, ticks, table, pending, histMemo, rankMemo>>

\* ------------------------------------------------------- store_prices
\* a row stamped with the time of its own INSERT
RowStampedAtInsert(pair, price, timestamp) ==
  [pair |-> pair, price |-> price, timestamp |-> now]

\* the row of one INSERT
Row(pair, price, timestamp) == [pair |-> pair, price |-> price, timestamp |-> timestamp]

\* store_prices raised (SQLAlchemyError, logged and re-raised): the
\* connection closes, which rolls its transaction back
StoreRaise(p) ==
  /\ pending' = [pending EXCEPT ![p] = <<>>]
  /\ loc' = [loc EXCEPT ![p].stored = "raise"]
  /\ Finish(p, WrapperOnError, "store")
  /\ UNCHANGED table

\* timestamp = datetime.now(UTC); engine.connect()
StoreBegin(p, faults) ==
  /\ ret = NoRet
  /\ pc[p] = "store"
  /\ \/ /\ loc' = [loc EXCEPT ![p].stored = "begun", ![p].timestamp = now,
                              ![p].todo = loc[p].prices]
        /\ pc' = [pc EXCEPT ![p] = "insert"]
        /\ UNCHANGED <<table, pending, stCache, ret>>
     \/ faults /\ StoreRaise(p)
  /\ UNCHANGED <<now, ticks, histMemo, rankMemo>>

\* a connection in autocommit mode: each INSERT is committed at once
InsertIntoAutocommit(p, row) ==
  /\ table' = Append(table, row)
  /\ UNCHANGED pending

\* where a statement of caller p's open transaction puts its row
InsertInto(p, row) ==
  /\ pending' = [pending EXCEPT ![p] = Append(@, row)]
  /\ UNCHANGED table

\* one INSERT of the loop over prices.items()
Insert(p, faults) ==
  /\ ret = NoRet
  /\ pc[p] = "insert"
  /\ loc[p].todo # <<>>
  /\ \/ /\ InsertInto(p, Row(Head(loc[p].todo).key, Head(loc[p].todo).val,
                             loc[p].timestamp))
        /\ loc' = [loc EXCEPT ![p].todo = Tail(@)]
        /\ UNCHANGED <<pc, stCache, ret>>
     \/ faults /\ StoreRaise(p)
  /\ UNCHANGED <<now, ticks, histMemo, rankMemo>>

\* a commit that replaces the table by the batch
CommitReplaces(p, faults) ==
  /\ ret = NoRet
  /\ pc[p] = "insert"
  /\ loc[p].todo = <<>>
  /\ \/ /\ table' = pending[p]
        /\ pending' = [pending EXCEPT ![p] = <<>>]
        /\ loc' = [loc EXCEPT ![p].stored = "committed"]
        /\ Finish(p, [kind |-> "return", value |-> loc[p].prices], "none")
     \/ faults /\ StoreRaise(p)
  /\ UNCHANGED <<now, ticks, histMemo, rankMemo>>

\* conn.commit(), then fetch_and_store_prices returns prices
Commit(p, faults) ==
  /\ ret = NoRet
  /\ pc[p] = "insert"
  /\ loc[p].todo = <<>>
  /\ \/ /\ table' = table \o pending[p]
        /\ pending' = [pending EXCEPT ![p] = <<>>]
        /\ loc' = [loc EXCEPT ![p].stored = "committed"]
        /\ Finish(p, [kind |-> "return", value |-> loc[p].prices], "none")
     \/ faults /\ StoreRaise(p)
  /\ UNCHANGED <<now, ticks, histMemo, rankMemo>>

\* ------------------------------------------------------------ reads
RECURSIVE Concat(_, _)
Concat(f, S) ==
  IF S = {} THEN <<>>
  ELSE LET x == CHOOSE y \in S : TRUE IN f[x] \o Concat(f, S \ {x})

\* a statement that also sees the rows of open transactions
VisibleDirty(tbl, pend) == tbl \o Concat(pend, DOMAIN pend)

\* the rows a statement sees: the committed ones
Visible(tbl, pend) == tbl

\* functools.lru_cache(maxsize): items [key, val, at], least recent first;
\* at is the time the value was computed
LruKeys(memo) == {memo[i].key : i \in 1..Len(memo)}

LruItem(memo, key) == memo[CHOOSE i \in 1..Len(memo) : memo[i].key = key]

\* a hit moves the item to the most recent end
LruTouch(memo, key) ==
  LET i == CHOOSE j \in 1..Len(memo) : memo[j].key = key
  IN SubSeq(memo, 1, i - 1) \o SubSeq(memo, i + 1, Len(memo)) \o <<memo[i]>>

\* after a miss the result is stored, the least recent item making room
LruPut(memo, key, val, t) ==
  IF key \in LruKeys(memo) THEN memo
  ELSE (IF Len(memo) >= LruMaxsize THEN Tail(memo) ELSE memo)
         \o <<[key |-> key, val |-> val, at |-> t]>>

\* ---------------------------------------------------- get_price_history
\* the arguments of a call: (pair) or (pair, hours); they are the memo key
HistPairs == {PAIRS[1], PAIRS[7]}

\* an explicit window, in hours
LongHours == 2 * DefaultHours

HistArgs == {<<p>> : p \in HistPairs} \cup {<<PAIRS[1], LongHours>>}

HoursOf(args) == IF Len(args) >= 2 THEN args[2] ELSE DefaultHours

\* a window that takes the row of exactly the since instant too
InWindowInclusive(row, pair, since) == row.pair = pair /\ row.timestamp >= since

\* WHERE pair = :pair AND timestamp > :since
InWindow(row, pair, since) == row.pair = pair /\ row.timestamp > since

\* ORDER BY timestamp DESC over the rows numbered S: every order the
\* database may give rows of equal timestamp
RECURSIVE OrderDesc(_, _)
OrderDesc(rows, S) ==
  IF S = {} THEN {<<>>}
  ELSE UNION {{<<rows[x]>> \o s : s \in OrderDesc(rows, S \ {x})} :
              x \in {y \in S : \A z \in S : rows[z].timestamp <= rows[y].timestamp}}

\* the SELECT of get_price_history, each row made a Price
HistoryQuery(rows, pair, hours, t) ==
  OrderDesc(rows, {i \in 1..Len(rows) :
                     InWindow(rows[i], pair, t - hours * SecondsPerHour)})

\* an lru_cache that keeps a failed call as an entry
LruOnRaiseStores(memo, key) == memo \o <<[key |-> key, val |-> <<>>, at |-> 0]>>

\* the wrapped function raised: the exception passes through the decorator,
\* which stores nothing
LruOnRaise(memo, key) == memo

\* a get_price_history whose body does not clear the memo
HistoryCallKeepsMemo(args) ==
  IF args \in LruKeys(histMemo)
  THEN {[kind |-> "return", value |-> LruItem(histMemo, args).val, executed |-> FALSE,
         memo |-> LruTouch(histMemo, args)]}
  ELSE {[kind |-> "return", value |-> res, executed |-> TRUE,
         memo |-> LruPut(histMemo, args, res, now)] :
           res \in HistoryQuery(Visible(table, pending), args[1], HoursOf(args), now)}
       \cup {[kind |-> "raise", value |-> <<>>, executed |-> TRUE,
               memo |-> LruOnRaise(histMemo, args)]}

\* get_price_history(*args): the memo's answer if it has one; else the body:
\* cache_clear(), the query, and the result stored by the decorator (memo
\* is the memo after the call)
HistoryCall(args) ==
  IF args \in LruKeys(histMemo)
  THEN {[kind |-> "return", value |-> LruItem(histMemo, args).val, executed |-> FALSE,
         memo |-> LruTouch(histMemo, args)]}
  ELSE {[kind |-> "return", value |-> res, executed |-> TRUE,
         memo |-> LruPut(<<>>, args, res, now)] :
           res \in HistoryQuery(Visible(table, pending), args[1], HoursOf(args), now)}
       \cup {[kind |-> "raise", value |-> <<>>, executed |-> TRUE,
               memo |-> LruOnRaise(<<>>, args)]}

\* a caller of the service calls get_price_history(*args)
ReadHistory(args) ==
  /\ ret = NoRet
  /\ \E o \in HistoryCall(args) :
       /\ ret' = [op |-> "get_price_history", args |-> args, kind |-> o.kind,
                  value |-> o.value, executed |-> o.executed]
       /\ histMemo' = o.memo
  /\ UNCHANGED <<now, ticks, table, pending, pc, loc, stCache, rankMemo>>

\* -------------------------------------------------- get_volatility_rank
RECURSIVE SumOver(_, _)
SumOver(f, S) ==
  IF S = {} THEN 0
  ELSE LET x == CHOOSE y \in S : TRUE IN f[x] + SumOver(f, S \ {x})

\* WHERE timestamp >= NOW() - INTERVAL '24 HOURS'
InRankWindow(row, t) == row.timestamp >= t - RankWindowHours * SecondsPerHour

\* one group of GROUP BY pair: COUNT(*), and STDDEV(price) kept as its
\* square, the sample variance num / den (den > 0 when COUNT(*) > 1)
PairGroup(rows, pair, t) ==
  LET S == {i \in 1..Len(rows) : rows[i].pair = pair /\ InRankWindow(rows[i], t)}
      n == Cardinality(S)
      sum == SumOver([i \in S |-> rows[i].price], S)
      sumsq == SumOver([i \in S |-> rows[i].price * rows[i].price], S)
  IN [pair |-> pair, count |-> n, num |-> n * sumsq - sum * sum, den |-> n * (n - 1)]

\* std_dev of a < std_dev of b
StdLess(a, b) == a.num * b.den < b.num * a.den

\* a pair_stddev that keeps the pairs of a single sample
PairStddevKeepsSingles(rows, t) ==
  LET groups == {PairGroup(rows, q, t) : q \in {rows[i].pair : i \in 1..Len(rows)}}
  IN {g \in groups : g.count >= 1}

\* pair_stddev: GROUP BY pair HAVING COUNT(*) > 1
PairStddev(rows, t) ==
  LET groups == {PairGroup(rows, q, t) : q \in {rows[i].pair : i \in 1..Len(rows)}}
  IN {g \in groups : g.count > 1}

\* ORDER BY std_dev DESC
RECURSIVE SortDesc(_)
SortDesc(S) ==
  IF S = {} THEN <<>>
  ELSE LET x == CHOOSE y \in S : \A z \in S : ~StdLess(y, z)
       IN <<x>> \o SortDesc(S \ {x})

\* DENSE_RANK(): the rank after a tie does not skip
RECURSIVE RankAtDense(_, _)
RankAtDense(ordered, i) ==
  IF i = 1 THEN 1
  ELSE IF ~StdLess(ordered[i], ordered[i - 1]) THEN RankAtDense(ordered, i - 1)
  ELSE RankAtDense(ordered, i - 1) + 1

\* RANK() of row i of the ordered rows: its peers share the row number of
\* the first of them
RECURSIVE RankAt(_, _)
RankAt(ordered, i) ==
  IF i = 1 THEN 1
  ELSE IF ~StdLess(ordered[i], ordered[i - 1]) THEN RankAt(ordered, i - 1)
  ELSE i

\* the ranking query for pair, then result[0] if result else None:
\* <<rank>>, or <<>> for None
RankQuery(rows, pair, t) ==
  LET ordered == SortDesc(PairStddev(rows, t))
      hits == {i \in 1..Len(ordered) : ordered[i].pair = pair}
  IN IF hits = {} THEN <<>>
     ELSE <<RankAt(ordered, CHOOSE i \in hits : TRUE)>>

\* the pairs whose rank the model asks for
RankArgs == {<<PAIRS[2]>>}

\* get_volatility_rank(*args): the memo's answer if it has one; else the
\* query, its result stored by the decorator (memo is the memo after the
\* call, at the time the value was computed)
RankCall(args) ==
  IF args \in LruKeys(rankMemo)
  THEN {[kind |-> "return", value |-> LruItem(rankMemo, args).val, executed |-> FALSE,
         at |-> LruItem(rankMemo, args).at, memo |-> LruTouch(rankMemo, args)]}
  ELSE {[kind |-> "return", value |-> RankQuery(Visible(table, pending), args[1], now),
         executed |-> TRUE, at |-> now,
         memo |-> LruPut(rankMemo, args,
                         RankQuery(Visible(table, pending), args[1], now), now)],
        [kind |-> "raise", value |-> <<>>, executed |-> TRUE, at |-> now,
         memo |-> LruOnRaise(rankMemo, args)]}

\* a caller of the service calls get_volatility_rank(*args)
ReadRank(args) ==
  /\ ret = NoRet
  /\ \E o \in RankCall(args) :
       /\ ret' = [op |-> "get_volatility_rank", args |-> args, kind |-> o.kind,
                  value |-> o.value, executed |-> o.executed, at |-> o.at]
       /\ rankMemo' = o.memo
  /\ UNCHANGED <<now, ticks, table, pending, pc, loc, stCache, histMemo>>

\* ---------------------------------------------------------- the routes
\* the path parameters the model sends: symbols of the catalog, one in
\* upper case, and one that no enumeration has
RouteBases == {"btc", "etc", "BTC", "xyz"}

RouteQuotes == {"usd", "btc", "eur"}

\* a route that checks the two symbols against the enumerations
InCatalogByEnum(pair) ==
  SplitPair(pair).base \in BaseCurrency /\ SplitPair(pair).quote \in QuoteCurrency

\* pair in PAIRS
InCatalog(pair) == pair \in PairSet

\* GET /api/prices/{base}/{quote}/current: 404 for a pair that is not in
\* PAIRS, else service.fetch_prices() (FetchGroup), then the Price
CurrentBegin(p, base, quote) ==
  /\ ret = NoRet
  /\ pc[p] = "idle"
  /\ LET pair == PairStr(base, quote)
         l0 == [IdleLoc EXCEPT !.caller = "current", !.pair = pair, !.table0 = table]
     IN IF ~InCatalog(pair)
        THEN /\ loc' = [loc EXCEPT ![p] = l0]
             /\ Respond(p, "current", StatusNotFound, <<>>)
        ELSE /\ \E k \in 1..NumProfiles :
                  loc' = [loc EXCEPT ![p] = [l0 EXCEPT !.market = k,
                                                       !.groups = QuoteGroups]]
             /\ pc' = [pc EXCEPT ![p] = "fetch"]
             /\ UNCHANGED ret
  /\ UNCHANGED <<now, ticks, table, pending, stCache, histMemo, rankMemo>>

\* the queries a call of the service has run: one when its body executed
Ran(o) == IF o.executed THEN 1 ELSE 0

\* GET /api/prices/{base}/{quote}/history: 404 for a pair that is not in
\* PAIRS, else prices = service.get_price_history(pair)
HistoryBegin(p, base, quote) ==
  /\ ret = NoRet
  /\ pc[p] = "idle"
  /\ LET pair == PairStr(base, quote)
         l0 == [IdleLoc EXCEPT !.caller = "history", !.pair = pair, !.table0 = table]
     IN IF ~InCatalog(pair)
        THEN /\ loc' = [loc EXCEPT ![p] = l0]
             /\ Respond(p, "history", StatusNotFound, <<>>)
             /\ UNCHANGED histMemo
        ELSE \E o \in HistoryCall(<<pair>>) :
               /\ histMemo' = o.memo
               /\ loc' = [loc EXCEPT ![p] = [l0 EXCEPT !.queries = Ran(o),
                                                       !.history = o.value]]
               /\ IF o.kind = "raise"
                  THEN Respond(p, "history", StatusServerError, <<>>)
                  ELSE pc' = [pc EXCEPT ![p] = "rank"] /\ UNCHANGED ret
  /\ UNCHANGED <<now, ticks, table, pending, stCache, rankMemo>>

\* rank = service.get_volatility_rank(pair), then the PriceHistory
HistoryRank(p) ==
  /\ ret = NoRet
  /\ pc[p] = "rank"
  /\ \E o \in RankCall(<<loc[p].pair>>) :
       /\ rankMemo' = o.memo
       /\ loc' = [loc EXCEPT ![p].queries = @ + Ran(o)]
       /\ IF o.kind = "raise"
          THEN Respond(p, "history", StatusServerError, <<>>)
          ELSE Respond(p, "history", StatusOK,
                       [pair |-> loc[p].pair, prices |-> loc[p].history,
                        volatility_rank |-> o.value])
  /\ UNCHANGED <<now, ticks, table, pending, stCache, histMemo>>

\* the steps of one fetch_and_store_prices call; net and db say whether the
\* external source and the database may fail in this specification
Cycle(p, net, db) ==
  \/ Call(p)
  \/ FetchGroup(p, net)
  \/ StoreBegin(p, db)
  \/ Insert(p, db)
  \/ Commit(p, db)

Next ==
  \/ Tick
  \/ Return
  \/ \E p \in Drivers : Cycle(p, TRUE, TRUE)

Spec == Init /\ [][Next]_vars

\* the cycle and the history reads
NextHist ==
  \/ Tick
  \/ Return
  \/ \E p \in Drivers : Cycle(p, FALSE, FALSE)
  \/ \E args \in HistArgs : ReadHistory(args)

SpecHist == Init /\ [][NextHist]_vars

\* the cycle and the rank reads
NextRank ==
  \/ Tick
  \/ Return
  \/ \E p \in Drivers : Cycle(p, FALSE, FALSE)
  \/ \E args \in RankArgs : ReadRank(args)

SpecRank == Init /\ [][NextRank]_vars

\* the cycle with the faults of the database, interleaved with both readers
NextStore ==
  \/ Tick
  \/ Return
  \/ \E p \in Drivers : Cycle(p, FALSE, TRUE)
  \/ ReadHistory(<<PAIRS[1]>>)
  \/ ReadRank(<<PAIRS[2]>>)

SpecStore == Init /\ [][NextStore]_vars

\* two dashboard processes, each with its cache, on the one database, at
\* one refresh: the clock stands still
NextConc ==
  \/ Return
  \/ \E p \in Procs : Cycle(p, FALSE, FALSE)

SpecConc == Init /\ [][NextConc]_vars

\* the API process
Api == {2}

\* the dashboard's cycle and the two routes of the API; the requests of the
\* API to the external source may fail; the clock stands still (the routes
\* take no decision on it)
NextApi ==
  \/ Return
  \/ \E p \in Drivers : Cycle(p, FALSE, FALSE)
  \/ \E p \in Api, base \in RouteBases, quote \in RouteQuotes : CurrentBegin(p, base, quote)
  \/ \E p \in Api : FetchGroup(p, TRUE)
  \/ \E p \in Api, base \in RouteBases, quote \in RouteQuotes : HistoryBegin(p, base, quote)
  \/ \E p \in Api : HistoryRank(p)

SpecApi == Init /\ [][NextApi]_vars

\* ============================================================ claims
\* a response that is a request failure: the request raised, the status is
\* not a success, the body is no JSON, or an expected identifier or quote
\* key is missing
BadResponse(req, resp) ==
  \/ resp.kind = "exception"
  \/ resp.status < 200 \/ resp.status > 299
  \/ ~resp.json
  \/ \E i \in 1..Len(req.ids) :
       \/ req.ids[i] \notin DOMAIN resp.data
       \/ req.vs \notin DOMAIN resp.data[req.ids[i]]

\* the call of caller p has had a failed request
FetchFailed(p) ==
  \E i \in 1..Len(loc[p].respLog) : BadResponse(loc[p].reqLog[i], loc[p].respLog[i])

\* C1: in fetch_and_store_prices, once the request of any quote group has
\* failed, store_prices is not invoked, no row is inserted, and the table is
\* the one the call started with
C1_FetchFailureLeavesStore ==
  \A p \in Procs :
    /\ FetchFailed(p) =>
         /\ loc[p].stored = "none"
         /\ pending[p] = <<>>
         /\ table = loc[p].table0
         /\ pc[p] = "done"
    /\ pc[p] = "fetch" => pending[p] = <<>> /\ table = loc[p].table0

\* C1: a call has ended on a failure of the last quote group, after a batch
\* of an earlier call was stored
C1_Witness ==
  /\ pc[1] = "done"
  /\ Len(loc[1].respLog) = Len(QuoteGroups)
  /\ FetchFailed(1)
  /\ Len(table) = Len(PAIRS)

\* the price the responses of the call of p gave for the pair string
ResponsePrices(p, pair) ==
  LET s == SplitPair(pair)
  IN {loc[p].respLog[i].data[CoinGeckoId[Upper(s.base)]][s.quote] :
        i \in {j \in 1..Len(loc[p].respLog) : loc[p].reqLog[j].vs = s.quote}}

\* C2: fetch_prices returns only a mapping with the price of every catalog
\* pair, each as its response gave it, and only when no request failed; when
\* a request has failed it has raised and has returned no mapping
C2_FetchAllOrRaise ==
  \A p \in Procs :
    /\ loc[p].fetched = "return" =>
         /\ ~FetchFailed(p)
         /\ DictKeys(loc[p].prices) = PairSet
         /\ Len(loc[p].prices) = Len(PAIRS)
         /\ \A i \in 1..Len(loc[p].prices) :
              ResponsePrices(p, loc[p].prices[i].key) = {loc[p].prices[i].val}
    /\ FetchFailed(p) => loc[p].fetched = "raise" /\ loc[p].prices = EmptyDict

\* C2: fetch_prices has raised on the second quote group, holding the
\* prices of the first
C2_Witness ==
  /\ loc[1].fetched = "raise"
  /\ Len(loc[1].respLog) = 2
  /\ loc[1].current_prices # EmptyDict

\* the rows are whole batches one after the other: each run of as many rows
\* as the catalog has pairs holds one row of every pair, all of one timestamp
WholeBatches(rows) ==
  /\ Len(rows) % Len(PAIRS) = 0
  /\ \A b \in 0..(Len(rows) \div Len(PAIRS) - 1) :
       LET run == {b * Len(PAIRS) + j : j \in 1..Len(PAIRS)}
       IN /\ {rows[i].pair : i \in run} = PairSet
          /\ \A i \in run : rows[i].timestamp = rows[b * Len(PAIRS) + 1].timestamp

\* every element of the sequence a is an element of the sequence b
AllIn(a, b) == \A k \in 1..Len(a) : \E i \in 1..Len(b) : b[i] = a[k]

\* C3: what a reader sees is made of whole batches only, never of a part of
\* one; while
\* store_prices is inserting, readers see the table as it was before the
\* call, and what a query returns then is made of those rows; a store_prices
\* that failed has raised to its caller and left the table as it was
C3_StoreAllOrNothing ==
  LET seen == Visible(table, pending)
  IN /\ WholeBatches(seen)
     /\ \A p \in Drivers :
          /\ loc[p].stored = "begun" =>
               /\ seen = loc[p].table0
               /\ (ret.op = "get_price_history" /\ ret.executed /\ ret.kind = "return")
                    => AllIn(ret.value, loc[p].table0)
               /\ (ret.op = "get_volatility_rank" /\ ret.executed /\ ret.kind = "return")
                    => ret.value = RankQuery(loc[p].table0, ret.args[1], now)
          /\ loc[p].stored = "raise" =>
               /\ seen = loc[p].table0
               /\ pending[p] = <<>>
               /\ pc[p] = "done"
               /\ ret.failed = "store"
          /\ loc[p].stored = "committed" =>
               Len(seen) = Len(loc[p].table0) + Len(loc[p].prices)

\* C3: an INSERT has failed in the middle of the batch, after a reader
\* computed a rank while the store_prices call was under way
C3_Witness ==
  /\ loc[1].stored = "raise"
  /\ Len(loc[1].todo) > 0
  /\ Len(loc[1].todo) < Len(loc[1].prices)
  /\ Len(rankMemo) = 1
  /\ rankMemo[1].at > loc[1].timestamp

\* the call being made in this step finds a cache entry of the given age
CallAtAge(p, young) ==
  /\ pc[p] = "idle"
  /\ pc'[p] # "idle"
  /\ stCache[p].present
  /\ young <=> (now - stCache[p].at < TTL)

\* the rows of one pair are at least a ttl apart
BatchesApart ==
  \A i, j \in 1..Len(table) :
    (i < j /\ table[i].pair = table[j].pair)
      => table[j].timestamp - table[i].timestamp >= TTL

\* C6: a call of the cached fetch-and-store made less than 90 seconds after
\* the entry was computed returns the entry's mapping, issues no request and
\* inserts no row; so the batches of sequential calls are 90 seconds apart
C6_FreshCallServedFromCache ==
  /\ [][\A p \in Drivers :
          CallAtAge(p, TRUE) =>
            /\ pc'[p] = "done"
            /\ ret'.op = "fetch_and_store_prices"
            /\ ret'.kind = "return"
            /\ ret'.value = stCache[p].value
            /\ loc'[p].reqLog = <<>>
            /\ table' = table
            /\ pending' = pending
            /\ stCache' = stCache]_vars
  /\ []BatchesApart

\* C6: a call has been served from an entry 45 seconds old that holds prices
C6_Witness ==
  /\ ret.op = "fetch_and_store_prices"
  /\ ret.hit
  /\ ret.value # EmptyDict
  /\ now - stCache[1].at = 45

\* the rows store_prices inserts for a mapping
RECURSIVE RowsOf(_, _)
RowsOf(prices, t) ==
  IF prices = <<>> THEN <<>>
  ELSE <<[pair |-> Head(prices).key, price |-> Head(prices).val, timestamp |-> t]>>
         \o RowsOf(Tail(prices), t)

\* C7: a call of the cached fetch-and-store made 90 seconds or more after
\* the entry was computed runs fetch_prices, and store_prices once that has
\* returned; when both succeed the batch is appended and the entry replaced
C7_ExpiredCallRecomputes ==
  /\ [][\A p \in Drivers :
          CallAtAge(p, FALSE) =>
            /\ pc'[p] = "fetch"
            /\ ret' = NoRet
            /\ loc'[p].groups = QuoteGroups
            /\ loc'[p].reqLog = <<>>]_vars
  /\ [](\A p \in Drivers :
          /\ loc[p].fetched = "return" =>
               /\ pc[p] \in {"store", "insert", "done"}
               /\ pc[p] = "done" => loc[p].stored \in {"committed", "raise"}
          /\ loc[p].stored = "committed" =>
               /\ table = loc[p].table0 \o RowsOf(loc[p].prices, loc[p].timestamp)
               /\ stCache[p] = [present |-> TRUE, value |-> loc[p].prices, at |-> now]
               /\ ret.value = loc[p].prices
               /\ ~ret.hit)

\* C7: a call made exactly 90 seconds after the entry was computed has
\* stored a second batch
C7_Witness ==
  /\ pc[1] = "done"
  /\ loc[1].stored = "committed"
  /\ Len(table) = 2 * Len(PAIRS)
  /\ table[1].timestamp = 0
  /\ table[Len(PAIRS) + 1].timestamp = TTL
  /\ now = TTL

\* the cycle of caller p has failed, in fetch_prices or in store_prices
CycleFailed(p) ==
  /\ pc[p] = "done"
  /\ \/ FetchFailed(p)
     \/ loc[p].stored = "raise"

\* C8 as claimed: the caller of a failed fetch-and-store cycle gets an error
C8_FailureRaisedToCaller ==
  \A p \in Drivers : CycleFailed(p) => ret.kind = "raise"

\* C8 as amended: fetch_prices and store_prices raise to
\* fetch_and_store_prices, which returns the empty mapping to its caller
C8_FailureReturnsEmpty ==
  \A p \in Drivers :
    CycleFailed(p) =>
      /\ loc[p].fetched = "raise" \/ loc[p].stored = "raise"
      /\ ret.op = "fetch_and_store_prices"
      /\ ret.kind = "return"
      /\ ret.value = EmptyDict

\* C8: a cycle has failed in store_prices
C8_Witness ==
  /\ CycleFailed(1)
  /\ loc[1].stored = "raise"
  /\ ret.op = "fetch_and_store_prices"

\* the number of elements of the sequence equal to r
Occurrences(seq, r) == Cardinality({i \in 1..Len(seq) : seq[i] = r})

\* the sequence hist is exactly the rows of the pair stored after since,
\* each as stored, in non-increasing timestamp order
IsHistoryOf(hist, rows, pair, since) ==
  /\ \A k \in 1..Len(hist) :
       /\ hist[k].pair = pair
       /\ hist[k].timestamp > since
       /\ k > 1 => hist[k - 1].timestamp >= hist[k].timestamp
       /\ Occurrences(hist, hist[k]) = Occurrences(rows, hist[k])
  /\ \A i \in 1..Len(rows) :
       (rows[i].pair = pair /\ rows[i].timestamp > since)
         => Occurrences(hist, rows[i]) = Occurrences(rows, rows[i])

\* C4 as claimed: a get_price_history call whose window covers every stored
\* timestamp returns all the samples stored so far for the pair, newest first
C4_HistoryAlwaysFresh ==
  (/\ ret.op = "get_price_history"
   /\ ret.kind = "return"
   /\ \A i \in 1..Len(table) :
        table[i].timestamp > now - HoursOf(ret.args) * SecondsPerHour)
  => IsHistoryOf(ret.value, table, ret.args[1],
                 now - HoursOf(ret.args) * SecondsPerHour)

\* C9: when get_price_history runs its query, the result is exactly the rows
\* of the pair with a timestamp strictly after now minus hours (24 when not
\* given), in non-increasing timestamp order, each with its stored price
C9_HistoryQueryExact ==
  (ret.op = "get_price_history" /\ ret.executed /\ ret.kind = "return")
  => IsHistoryOf(ret.value, table, ret.args[1],
                 now - (IF Len(ret.args) = 1 THEN 24 ELSE ret.args[2]) * 3600)

\* C9: a query with the default window has returned the one row of the pair
\* that is younger than 24 hours, the table holding a second one that is
\* exactly 24 hours old, and the rows of the other pairs
C9_Witness ==
  /\ ret.op = "get_price_history"
  /\ ret.executed
  /\ ret.args = <<PAIRS[1]>>
  /\ Len(table) = 2 * Len(PAIRS)
  /\ table[1].timestamp = now - 86400
  /\ Len(ret.value) = 1
  /\ ret.value[1].timestamp > table[1].timestamp

\* C5 as claimed: a get_volatility_rank call made more than 90 seconds after
\* its value was computed returns the rank of the current table
C5_RankRefreshedAfterTTL ==
  (ret.op = "get_volatility_rank" /\ ret.kind = "return" /\ now - ret.at > TTL)
  => ret.value = RankQuery(Visible(table, pending), ret.args[1], now)

\* the prices of a pair in the trailing 24 hours, by row number
Trailing(pair) ==
  {i \in 1..Len(table) : table[i].pair = pair /\ table[i].timestamp >= now - 86400}

\* n * n times the sum of the squared deviations from the mean
RECURSIVE SquaredDev(_, _, _)
SquaredDev(S, n, sum) ==
  IF S = {} THEN 0
  ELSE LET i == CHOOSE j \in S : TRUE
       IN (n * table[i].price - sum) * (n * table[i].price - sum)
            + SquaredDev(S \ {i}, n, sum)

RECURSIVE PriceSum(_)
PriceSum(S) ==
  IF S = {} THEN 0
  ELSE LET i == CHOOSE j \in S : TRUE IN table[i].price + PriceSum(S \ {i})

\* the sample standard deviation of q is strictly greater than that of p
\* (both with 2 samples or more): the variances, cross-multiplied
MoreVolatile(q, p) ==
  LET nq == Cardinality(Trailing(q))
      np == Cardinality(Trailing(p))
  IN SquaredDev(Trailing(q), nq, PriceSum(Trailing(q))) * (np * np * (np - 1))
       > SquaredDev(Trailing(p), np, PriceSum(Trailing(p))) * (nq * nq * (nq - 1))

RankedPairs == {table[i].pair : i \in {j \in 1..Len(table) :
                                         Cardinality(Trailing(table[j].pair)) > 1}}

ExpectedRank(p) == 1 + Cardinality({q \in RankedPairs : MoreVolatile(q, p)})

\* C10: the ranking query gives a ranked pair the rank 1 plus the number of
\* ranked pairs of strictly greater trailing-24-hour standard deviation, in
\* every table the program reaches and in every call that ran the query
C10_RankCountsMoreVolatile ==
  /\ \A p \in RankedPairs :
       RankQuery(Visible(table, pending), p, now) = <<ExpectedRank(p)>>
  /\ (/\ ret.op = "get_volatility_rank"
      /\ ret.executed
      /\ ret.kind = "return"
      /\ ret.args[1] \in RankedPairs)
     => ret.value = <<ExpectedRank(ret.args[1])>>

\* C10: the query has ranked eth/usd third, tied with sol/usd, below the
\* tied dot/usd and bnt/btc (both first); the rank after the four pairs tied
\* at 3 is 7 (btc/usd)
C10_Witness ==
  /\ ret.op = "get_volatility_rank"
  /\ ret.executed
  /\ ret.args = <<PAIRS[2]>>
  /\ ret.value = <<3>>
  /\ RankQuery(table, PAIRS[5], now) = <<1>>
  /\ RankQuery(table, PAIRS[8], now) = <<1>>
  /\ RankQuery(table, PAIRS[3], now) = <<3>>
  /\ RankQuery(table, PAIRS[1], now) = <<7>>

\* what get_volatility_rank returns is no rank when the pair has fewer than
\* 2 rows in the trailing 24 hours, and else one integer, 1 or more
RankOrNone(r, pair) ==
  IF Cardinality(Trailing(pair)) < 2 THEN r = <<>>
  ELSE Len(r) = 1 /\ r[1] \in Nat /\ r[1] >= 1

\* pairs of the three quote groups, and a pair that is never stored
SampledPairs == {PAIRS[2], PAIRS[4], PAIRS[8], PairStr("xyz", "usd")}

\* C11: whenever the ranking query runs, it returns no rank (None) exactly
\* for a pair with fewer than 2 stored samples in the trailing 24 hours (a
\* pair with no row at all included), and an integer of at least 1 otherwise
C11_NoRankIffFewSamples ==
  /\ \A q \in SampledPairs :
       RankOrNone(RankQuery(Visible(table, pending), q, now), q)
  /\ (ret.op = "get_volatility_rank" /\ ret.executed /\ ret.kind = "return")
       => RankOrNone(ret.value, ret.args[1])

\* C11: the query has returned None for a pair with two stored samples, one
\* of them older than 24 hours
C11_Witness ==
  /\ ret.op = "get_volatility_rank"
  /\ ret.executed
  /\ ret.kind = "return"
  /\ ret.value = <<>>
  /\ Len(table) = 2 * Len(PAIRS)
  /\ Cardinality(Trailing(ret.args[1])) = 1

\* a route of the API has been called by p for a pair that PAIRS lacks
UnknownPair(p) ==
  loc[p].caller \in {"current", "history"} /\ loc[p].pair \notin PairSet

\* C12: for every (base, quote) whose "base/quote" is not in the catalog,
\* both routes answer 404 at once: the service is not called, no request is
\* sent, no query is run, and the table and the memos are left as they were
C12_UnknownPairNotFound ==
  /\ [](\A p \in Api :
          UnknownPair(p) =>
            /\ pc[p] = "done"
            /\ ret.op = loc[p].caller
            /\ ret.status = 404
            /\ loc[p].reqLog = <<>>
            /\ loc[p].queries = 0
            /\ loc[p].fetched = "none")
  /\ [][\A p \in Api :
          (pc[p] = "idle" /\ UnknownPair(p)')
            => /\ table' = table
               /\ pending' = pending
               /\ histMemo' = histMemo
               /\ rankMemo' = rankMemo
               /\ stCache' = stCache]_vars

\* C12: the history route has answered 404 for btc/eur, whose base and
\* quote are symbols of the enumerations, while the table held a batch
C12_Witness ==
  /\ ret.op = "history"
  /\ ret.status = 404
  /\ loc[2].pair = PairStr("btc", "eur")
  /\ Len(table) = Len(PAIRS)

\* C13 as claimed: for a catalog pair, once fetch_prices has returned its
\* mapping the current-price route answers 200 with the price of the pair
C13_CurrentReturnsPrice ==
  \A p \in Api :
    (loc[p].caller = "current" /\ loc[p].fetched = "return") =>
      /\ ret.op = "current"
      /\ ret.status = 200
      /\ ret.value.pair = loc[p].pair
      /\ ret.value.price = loc[p].prices[DictGet(loc[p].prices, loc[p].pair)].val

\* the distinct quote currencies of the catalog
CatalogQuotes == {SplitPair(PAIRS[i]).quote : i \in 1..Len(PAIRS)}

\* the identifiers of the base symbols of the catalog pairs quoted in q
QuoteIds(q) ==
  {CoinGeckoId[Upper(SplitPair(PAIRS[i]).base)] :
     i \in {j \in 1..Len(PAIRS) : SplitPair(PAIRS[j]).quote = q}}

\* C14: a fetch_prices call that returned has sent exactly one request per
\* distinct quote currency of the catalog, each with the identifiers of all
\* the base symbols of its quote group and no other, and its mapping has
\* exactly the catalog pair strings as keys; no call sends more requests
C14_OneRequestPerQuote ==
  \A p \in Procs :
    /\ Len(loc[p].reqLog) <= Cardinality(CatalogQuotes)
    /\ loc[p].fetched = "return" =>
         /\ Len(loc[p].reqLog) = Cardinality(CatalogQuotes)
         /\ Len(loc[p].reqLog) < Len(PAIRS)
         /\ \A q \in CatalogQuotes :
              Cardinality({i \in 1..Len(loc[p].reqLog) : loc[p].reqLog[i].vs = q}) = 1
         /\ \A i \in 1..Len(loc[p].reqLog) :
              /\ IdSet(loc[p].reqLog[i]) = QuoteIds(loc[p].reqLog[i].vs)
              /\ Len(loc[p].reqLog[i].ids) = Cardinality(QuoteIds(loc[p].reqLog[i].vs))
         /\ DictKeys(loc[p].prices) = PairSet
         /\ Len(loc[p].prices) = Cardinality(PairSet)

\* C14: a call has returned after three requests, the first for the five
\* bases quoted in usd
C14_Witness ==
  /\ loc[1].fetched = "return"
  /\ Len(loc[1].reqLog) = 3
  /\ loc[1].reqLog[1] =
       [ids |-> <<"bitcoin", "ethereum", "solana", "polkadot", "cardano">>, vs |-> "usd"]
  /\ loc[1].reqLog[3] = [ids |-> <<"ethereum", "bancor">>, vs |-> "btc"]

\* the rows of the sequence carry one timestamp, t
OneTimestamp(rows, t) == \A i \in 1..Len(rows) : rows[i].timestamp = t

\* the rows are one row for each key of the mapping, and no other row
OneRowPerKey(rows, prices) ==
  /\ Len(rows) = Cardinality(DictKeys(prices))
  /\ \A k \in DictKeys(prices) :
       Cardinality({i \in 1..Len(rows) : rows[i].pair = k}) = 1

\* C15: the rows one store_prices call inserts all carry the timestamp the
\* call took before its first INSERT, however long the inserting takes, and
\* when it commits they are exactly one row per key of its input mapping;
\* in the table no batch is split over different timestamps
C15_BatchSharesTimestamp ==
  /\ \A p \in Drivers :
       /\ loc[p].stored = "begun" =>
            /\ OneTimestamp(pending[p], loc[p].timestamp)
            /\ OneRowPerKey(pending[p],
                            SubSeq(loc[p].prices, 1, Len(loc[p].prices) - Len(loc[p].todo)))
       /\ loc[p].stored = "committed" =>
            LET batch == SubSeq(table, Len(loc[p].table0) + 1, Len(table))
            IN /\ OneTimestamp(batch, loc[p].timestamp)
               /\ OneRowPerKey(batch, loc[p].prices)
               /\ \A i \in 1..Len(batch) :
                    batch[i].price = loc[p].prices[DictGet(loc[p].prices, batch[i].pair)].val
  /\ \A b \in 0..(Len(table) \div Len(PAIRS) - 1) :
       OneTimestamp(SubSeq(table, b * Len(PAIRS) + 1, (b + 1) * Len(PAIRS)),
                    table[b * Len(PAIRS) + 1].timestamp)

\* C15: a store_prices call has committed its batch 45 seconds after it
\* took the timestamp, the clock having advanced between two INSERTs
C15_Witness ==
  /\ loc[1].stored = "committed"
  /\ now = loc[1].timestamp + 45
  /\ Len(table) = 2 * Len(PAIRS)
  /\ table[Len(table)].timestamp = loc[1].timestamp
  /\ table[Len(PAIRS) + 1].timestamp = loc[1].timestamp

\* this step is the commit of a store_prices call, which appends its batch
IsCommitOf(p) ==
  /\ pc[p] = "insert"
  /\ loc[p].stored = "begun"
  /\ loc[p].todo = <<>>
  /\ loc'[p].stored = "committed"
  /\ table' = table \o RowsOf(loc[p].prices, loc[p].timestamp)

\* C16: the table is append-only and changed by store_prices alone: every
\* step keeps the stored rows as they are, in place; a step that changes the
\* table is the commit of a store_prices call and appends that call's batch;
\* the steps of fetch_prices, get_price_history and get_volatility_rank
\* leave the table, and the rows of open transactions, unchanged
C16_AppendOnly ==
  [][/\ Len(table') >= Len(table)
     /\ SubSeq(table', 1, Len(table)) = table
     /\ table' # table => \E p \in Procs : IsCommitOf(p)
     /\ (\E p \in Procs : pc[p] = "fetch" /\ loc'[p].reqLog # loc[p].reqLog)
          => table' = table /\ pending' = pending
     /\ (ret = NoRet /\ ret'.op \in {"get_price_history", "get_volatility_rank"})
          => table' = table /\ pending' = pending]_vars

\* C16: get_price_history has run its query on a table of two batches, the
\* older one still in its place
C16_Witness ==
  /\ ret.op = "get_price_history"
  /\ ret.executed
  /\ Len(table) = 2 * Len(PAIRS)
  /\ table[1].timestamp = 0
  /\ table[Len(PAIRS) + 1].timestamp > 0

\* the step the call of q is at
StepOf(q) ==
  \/ FetchGroup(q, FALSE)
  \/ StoreBegin(q, FALSE)
  \/ Insert(q, FALSE)
  \/ Commit(q, FALSE)

\* a caller with no fresh entry, in a model that has room for one more batch
MayCall(q) ==
  /\ pc[q] = "idle"
  /\ ~(stCache[q].present /\ now - stCache[q].at < TTL)
  /\ Len(table) + Len(PAIRS) * Cardinality({r \in Procs : pc[r] \in InCall})
       < MaxBatches * Len(PAIRS)

\* C17: invocations of fetch_prices followed by store_prices in two
\* processes are not serialized: while one is under way the other can start
\* and can take its every step; each that commits has sent all its requests
\* and appended its own batch, whatever the other has stored meanwhile
C17_ConcurrentCyclesOverlap ==
  /\ \A p, q \in Procs :
       (p # q /\ ret = NoRet /\ pc[p] \in InCall) =>
         /\ pc[q] \in InCall => ENABLED StepOf(q)
         /\ MayCall(q) => ENABLED Call(q)
  /\ \A p \in Procs :
       loc[p].stored = "committed" =>
         /\ Len(loc[p].reqLog) = 3
         /\ Len(table) >= Len(PAIRS)
         /\ SubSeq(table, Len(table) - Len(PAIRS) + 1, Len(table))
              = RowsOf(loc[p].prices, loc[p].timestamp)

\* C17: two batches are stored for one refresh: the second call started
\* while the table was empty, sent its three requests, and committed a
\* batch with the timestamp of the batch the first call had committed
C17_Witness ==
  /\ loc[2].stored = "committed"
  /\ loc[2].table0 = <<>>
  /\ Len(loc[2].reqLog) = 3
  /\ Len(table) = 2 * Len(PAIRS)
  /\ table[1].timestamp = table[Len(PAIRS) + 1].timestamp

\* the identifier of every symbol that has one
ExternalId ==
  [btc |-> "bitcoin", eth |-> "ethereum", sol |-> "solana", etc |-> "ethereum-classic",
   dot |-> "polkadot", ada |-> "cardano", bnt |-> "bancor"]

\* C18: get_coingecko_id returns the identifier of every symbol that has
\* one and fails for every other symbol, usd and eur included; every base
\* symbol of a catalog pair has one, so every request of fetch_prices carries
\* identifiers only and a fetch_prices that raised had a failed request
C18_IdentifierLookup ==
  /\ \A s \in Symbols :
       IF s \in DOMAIN ExternalId
       THEN get_coingecko_id(s) = [ok |-> TRUE, value |-> ExternalId[s]]
       ELSE ~get_coingecko_id(s).ok
  /\ ~get_coingecko_id("usd").ok /\ ~get_coingecko_id("eur").ok
  /\ \A i \in 1..Len(PAIRS) : get_coingecko_id(PAIRS[i][1]).ok
  /\ \A p \in Procs :
       /\ \A i \in 1..Len(loc[p].reqLog) :
            \A j \in 1..Len(loc[p].reqLog[i].ids) :
              \E s \in DOMAIN ExternalId : loc[p].reqLog[i].ids[j] = ExternalId[s]
       /\ loc[p].fetched = "raise" =>
            BadResponse(loc[p].reqLog[Len(loc[p].reqLog)], loc[p].respLog[Len(loc[p].respLog)])

\* C18: fetch_prices has resolved the bases of all three quote groups, etc
\* (quoted in eur) among them
C18_Witness ==
  /\ loc[1].fetched = "return"
  /\ loc[1].reqLog[2].ids = <<"ethereum-classic">>
  /\ loc[1].reqLog[2].vs = "eur"
  /\ DictKeys(loc[1].prices) = PairSet

\* C19: a get_price_history or get_volatility_rank call that raised ran its
\* body and left no entry for its arguments in the memo; a memo changes in
\* calls of its function only; and a call that finds no entry for its
\* arguments runs the query: so the call after a failed one queries again
C19_ReadFaultNotCached ==
  /\ []((ret.op = "get_price_history" /\ ret.kind = "raise")
          => ret.executed /\ ret.args \notin LruKeys(histMemo))
  /\ []((ret.op = "get_volatility_rank" /\ ret.kind = "raise")
          => ret.executed /\ ret.args \notin LruKeys(rankMemo))
  /\ [][/\ ret'.op # "get_price_history" => histMemo' = histMemo
        /\ ret'.op # "get_volatility_rank" => rankMemo' = rankMemo
        /\ (ret = NoRet /\ ret'.op = "get_price_history"
              /\ ret'.args \notin LruKeys(histMemo)) => ret'.executed
        /\ (ret = NoRet /\ ret'.op = "get_volatility_rank"
              /\ ret'.args \notin LruKeys(rankMemo)) => ret'.executed]_vars

\* C19: get_volatility_rank has raised on a table that holds a batch, and
\* the memo has no entry
C19_Witness ==
  /\ ret.op = "get_volatility_rank"
  /\ ret.kind = "raise"
  /\ Len(table) = Len(PAIRS)
  /\ rankMemo = <<>>

\* C20: a fetch-and-store cycle that failed has left the empty mapping in
\* the cache, computed now; and a call made less than 90 seconds after an
\* empty mapping was cached returns it without fetching or storing
C20_FailureCached ==
  /\ [](\A p \in Drivers :
          CycleFailed(p) =>
            stCache[p] = [present |-> TRUE, value |-> EmptyDict, at |-> now])
  /\ [][\A p \in Drivers :
          (CallAtAge(p, TRUE) /\ stCache[p].value = EmptyDict) =>
            /\ ret'.op = "fetch_and_store_prices"
            /\ ret'.kind = "return"
            /\ ret'.value = EmptyDict
            /\ ret'.hit
            /\ loc'[p] = loc[p]
            /\ UNCHANGED <<table, pending, stCache>>]_vars

\* C20: a call made 45 seconds after a failed cycle has been served the
\* empty mapping from the cache
C20_Witness ==
  /\ ret.op = "fetch_and_store_prices"
  /\ ret.hit
  /\ ret.value = EmptyDict
  /\ stCache[1].at = now - 45
  /\ table = <<>>

\* C21: the memo of get_price_history never holds more than one entry: a
\* call that ran the query leaves its own result as the only entry (none
\* when it raised), and only calls of get_price_history change the memo; so
\* a call is served from the memo exactly when the one entry has its
\* arguments, and a call with any other arguments runs the query
C21_HistoryMemoSingleEntry ==
  /\ [](Len(histMemo) <= 1)
  /\ []((ret.op = "get_price_history" /\ ret.executed) =>
          histMemo = IF ret.kind = "return"
                     THEN <<[key |-> ret.args, val |-> ret.value, at |-> now]>>
                     ELSE <<>>)
  /\ [][/\ ret'.op # "get_price_history" => histMemo' = histMemo
        /\ (ret = NoRet /\ ret'.op = "get_price_history") =>
             /\ ~ret'.executed <=> (Len(histMemo) = 1 /\ histMemo[1].key = ret'.args)
             /\ ~ret'.executed => ret'.value = histMemo[1].val /\ histMemo' = histMemo]_vars

\* C21: a call with an explicit window has been served from the memo, whose
\* one entry was computed earlier for the same arguments, and a call with
\* the default window for the same pair would run the query
C21_Witness ==
  /\ ret.op = "get_price_history"
  /\ ~ret.executed
  /\ ret.args = <<PAIRS[1], LongHours>>
  /\ Len(histMemo) = 1
  /\ histMemo[1].key = ret.args
  /\ histMemo[1].at < now
  /\ <<PAIRS[1]>> \notin LruKeys(histMemo)

====
